---- MODULE Spec2Model ----
(***************************************************************************)
(* Retention pipeline of gold-ai-advisor: scripts/daily_update.py (gap     *)
(* filler, retention pruner, archive files) and the upsert importer of     *)
(* scripts/import_vn_from_json.py, over the tables of create_schema.py.    *)
(*                                                                         *)
(* Abstractions: a calendar date YYYY-MM-DD is its day number (string      *)
(* order of ISO dates is day order); the numeric columns of a row are one  *)
(* value `val`; a source string is a sequence of tokens in which "+" is    *)
(* the character '+' and every other token is a run of other characters;   *)
(* a CSV archive file is the set of the rows written to it.                *)
(***************************************************************************)
EXTENDS Integers, Sequences, FiniteSets, TLC

\* ---------------------------------------------------------------- bounds
\* calendar days 0..MaxDay
MaxDay == 3
\* operations that change the store or the archive in one behaviour
MaxOps == 5

\* tokens in a stored source string
MaxSrcLen == 2
\* items in an upstream payload
MaxPayload == 2
\* invocations of the crawl and import steps on one payload
MaxRuns == 2

Days == 0..MaxDay
\* the seconds ts_for_file() can name: at most one new one per operation
Seconds == 0..MaxOps
\* --retention-days is argparse type=int: zero passes as any other integer
Ks == {0, 1, 2, 3}
Vals == {10, 12}
Brands == {"PNJ", "SJC"}
\* ORDER BY brand
BrandRank == [b \in Brands |-> IF b = "PNJ" THEN 0 ELSE 1]
\* times of day of imported quotes, in seconds from 12:00:00
ImportTimes == {0}
VnVals == {10}
\* utcnow().date() - retention_days: before every stored date, or not
TrimCutoffs == {0, 2}

VARIABLES world_gold, vn_gold, archive, clock, pc, pending, pruned, last, ops,
          ingest, orch

vars == <<world_gold, vn_gold, archive, clock, pc, pending, pruned, last, ops,
          ingest, orch>>

Tables == {"world_gold", "vn_gold"}

\* ---------------------------------------------------------------- sources
YFINANCE == <<"yfinance">>
CAFEF == <<"cafef">>
FFILL == <<"+", "ffill">>

\* str.lstrip("+")
RECURSIVE LStripPlus(_)
LStripPlus(s) ==
    IF s # <<>> /\ Head(s) = "+" THEN LStripPlus(Tail(s)) ELSE s

\* the source column is TEXT without NOT NULL: NULL is this one value
NULL == <<"<NULL>">>

\* last_vals[-1] or ""
OrEmpty(s) == IF s = NULL THEN <<>> ELSE s

\* prev_source = last_vals[-1] or ""
\* new_source = (prev_source + "+ffill").lstrip("+")
NewSource(prev) == LStripPlus(OrEmpty(prev) \o FFILL)

\* str.endswith("+ffill")
EndsFfill(s) ==
    Len(s) >= 2 /\ s[Len(s) - 1] = "+" /\ s[Len(s)] = "ffill"

\* occurrences of "+ffill" in s
FfillCount(s) ==
    Cardinality({i \in 1..(Len(s) - 1) : s[i] = "+" /\ s[i + 1] = "ffill"})

\* ---------------------------------------------------------------- tables
DatesOf(T) == {r.date : r \in T}

MaxOf(S) == CHOOSE x \in S : \A y \in S : y <= x
MinOf(S) == CHOOSE x \in S : \A y \in S : x <= y

TableOf(t) == IF t = "world_gold" THEN world_gold ELSE vn_gold

NoFile == [exists |-> FALSE, rows |-> {}]

\* ------------------------------------------------- forward_fill_table
\* last_vals: None, or the list (num_cols..., source) of the carried row
NoVals == [set |-> FALSE, val |-> 0, source |-> <<>>]
ValsOf(r) == [set |-> TRUE, val |-> r.val, source |-> r.source]

\* INSERT OR IGNORE INTO world_gold: the primary key is date
InsertOrIgnoreDaily(T, row) ==
    IF \E r \in T : r.date = row.date
    THEN [table |-> T, rowcount |-> 0]
    ELSE [table |-> T \cup {row}, rowcount |-> 1]

\* SELECT ... WHERE date < start ORDER BY date DESC LIMIT 1
SeedDaily(T, start) ==
    LET older == {r \in T : r.date < start}
    IN  IF older = {} THEN NoVals
        ELSE ValsOf(CHOOSE r \in older : r.date = MaxOf(DatesOf(older)))

\* the while loop over d in start..end; `existing` is existing_by_date
RECURSIVE WalkDaily(_, _, _, _, _, _)
WalkDaily(T, existing, d, end, lastv, n) ==
    IF d > end THEN [table |-> T, inserted |-> n]
    ELSE IF \E r \in existing : r.date = d
    THEN WalkDaily(T, existing, d + 1, end,
                   ValsOf(CHOOSE r \in existing : r.date = d), n)
    ELSE IF lastv.set
    THEN LET ins == InsertOrIgnoreDaily(T,
                        [date |-> d, val |-> lastv.val,
                         source |-> NewSource(lastv.source)])
         IN  WalkDaily(ins.table, existing, d + 1, end, lastv, n + ins.rowcount)
    ELSE WalkDaily(T, existing, d + 1, end, lastv, n)

\* variant: a fill whose loop runs one day past the maximum date
forward_fill_table_past_end(T, keep_days) ==
    IF T = {} THEN [table |-> T, inserted |-> 0]
    ELSE LET end == MaxOf(DatesOf(T))
             start == end - (keep_days - 1)
             existing == {r \in T : r.date >= start}
         IN  WalkDaily(T, existing, start, end + 1, SeedDaily(T, start), 0)

forward_fill_table(T, keep_days) ==
    IF T = {} THEN [table |-> T, inserted |-> 0]
    ELSE LET end == MaxOf(DatesOf(T))
             start == end - (keep_days - 1)
             existing == {r \in T : r.date >= start}
         IN  WalkDaily(T, existing, start, end, SeedDaily(T, start), 0)

\* ------------------------------------------- prune_table_keep_last_n_days
\* SELECT DISTINCT date ... ORDER BY d DESC LIMIT keep_days
\* (SQLite: a negative LIMIT is no limit)
RECURSIVE LargestDates(_, _)
LargestDates(S, n) ==
    IF S = {} \/ n = 0 THEN {}
    ELSE {MaxOf(S)} \cup LargestDates(S \ {MaxOf(S)}, n - 1)

distinct_dates(T, keep_days) ==
    IF keep_days < 0 THEN DatesOf(T) ELSE LargestDates(DatesOf(T), keep_days)

\* variant: a selection that also takes the rows dated cutoff_keep
to_delete_inclusive(T, cutoff_keep) == {r \in T : r.date <= cutoff_keep}

\* variant: a DELETE that also removes the rows dated cutoff_keep
DeleteOlder_inclusive(T, cutoff_keep) == {r \in T : ~(r.date <= cutoff_keep)}

\* SELECT * FROM table WHERE date < cutoff_keep
to_delete(T, cutoff_keep) == {r \in T : r.date < cutoff_keep}

\* DELETE FROM table WHERE date < cutoff_keep
DeleteOlder(T, cutoff_keep) == {r \in T : ~(r.date < cutoff_keep)}

\* archive_rows at second `now`: the file <table>_deleted_<ts_for_file()>.csv
\* is opened with mode "w", which creates it or truncates it, then the
\* header and the rows are written
archive_rows(rows, t, now) ==
    [archive EXCEPT ![<<t, now>>] = [exists |-> TRUE, rows |-> rows]]

\* ------------------------------------------------- forward_fill_vn_gold
\* A vn_gold row is [brand, tsd, tst, date, val, source]: ts is the ISO
\* string <tsd>T<time>, where tst counts the seconds of the time from
\* 12:00:00; string order of ts is the order of (tsd, tst).
TsLess(r, q) == r.tsd < q.tsd \/ (r.tsd = q.tsd /\ r.tst < q.tst)

\* SELECT DISTINCT brand FROM vn_gold ORDER BY brand, and enumerate()
BrandsOf(T) == {r.brand : r \in T}

\* inserted += cur.rowcount
RowCount(ins) == ins.rowcount

\* variant: INSERT OR REPLACE, which overwrites the row that holds the key
InsertOrReplaceVn(T, row) ==
    [table |-> {r \in T : ~(r.brand = row.brand /\ r.tsd = row.tsd /\ r.tst = row.tst)}
                   \cup {row},
     rowcount |-> 1]

\* INSERT OR IGNORE INTO vn_gold: the primary key is (brand, ts)
InsertOrIgnoreVn(T, row) ==
    IF \E r \in T : r.brand = row.brand /\ r.tsd = row.tsd /\ r.tst = row.tst
    THEN [table |-> T, rowcount |-> 0]
    ELSE [table |-> T \cup {row}, rowcount |-> 1]

\* WHERE brand=? AND date <= start ORDER BY date DESC, ts DESC LIMIT 1
SeedVn(T, b, start) ==
    LET cand == {r \in T : r.brand = b /\ r.date <= start}
    IN  IF cand = {} THEN NoVals
        ELSE ValsOf(CHOOSE r \in cand :
                \A q \in cand : q.date < r.date
                                \/ (q.date = r.date /\ ~TsLess(r, q)))

\* the row of brand b with the greatest ts among those dated d
LatestOfDate(T, b, d) ==
    LET cand == {r \in T : r.brand = b /\ r.date = d}
    IN  CHOOSE r \in cand : \A q \in cand : ~TsLess(r, q)

\* SELECT ... JOIN (SELECT date, MAX(ts) ... WHERE brand=? AND date BETWEEN
\* start AND end GROUP BY date): by_date, the latest row of each date
by_date(T, b, start, end) ==
    {r \in T : /\ r.brand = b /\ start <= r.date /\ r.date <= end
               /\ r = LatestOfDate(T, b, r.date)}

\* the while loop over d for the brand b of index i
RECURSIVE WalkVn(_, _, _, _, _, _, _, _)
WalkVn(T, existing, b, i, d, end, lastv, n) ==
    IF d > end THEN [table |-> T, inserted |-> n]
    ELSE IF \E r \in existing : r.date = d
    THEN WalkVn(T, existing, b, i, d + 1, end,
                ValsOf(CHOOSE r \in existing : r.date = d), n)
    ELSE IF lastv.set
    THEN LET ins == InsertOrIgnoreVn(T,
                        [brand |-> b, tsd |-> d, tst |-> i, date |-> d,
                         val |-> lastv.val, source |-> NewSource(lastv.source)])
         IN  WalkVn(ins.table, existing, b, i, d + 1, end, lastv,
                    n + RowCount(ins))
    ELSE WalkVn(T, existing, b, i, d + 1, end, lastv, n)

\* the for loop over enumerate(brands), in ORDER BY brand order
RECURSIVE BrandLoop(_, _, _, _, _, _)
BrandLoop(T, brands, todo, start, end, n) ==
    IF todo = {} THEN [table |-> T, inserted |-> n]
    ELSE LET b == CHOOSE c \in todo : \A e \in todo : BrandRank[c] <= BrandRank[e]
             i == Cardinality({c \in brands : BrandRank[c] < BrandRank[b]})
             res == WalkVn(T, by_date(T, b, start, end), b, i, start, end,
                           SeedVn(T, b, start), n)
         IN  BrandLoop(res.table, brands, todo \ {b}, start, end, res.inserted)

forward_fill_vn_gold(T, keep_days) ==
    IF T = {} THEN [table |-> T, inserted |-> 0]
    ELSE LET end == MaxOf(DatesOf(T))
             start == end - (keep_days - 1)
         IN  BrandLoop(T, BrandsOf(T), BrandsOf(T), start, end, 0)

\* ------------------------------------------------- import_vn_from_json
\* A JSON item is [gold_type, timestamp, date, time, val]. Its timestamp is
\* [kind, d, t]: kind "iso" for a string datetime.fromisoformat parses (day
\* d, second t from 12:00:00), "bad" for any other string, "absent" for a
\* missing key. Its date is a day, or NoDate for a missing or empty field.
\* An instant, utcnow included, is [d, t].
NoDate == -1
Iso(d, t) == [kind |-> "iso", d |-> d, t |-> t]
NoTimestamp == [kind |-> "absent", d |-> 0, t |-> 0]
BadTimestamp == [kind |-> "bad", d |-> 0, t |-> 0]

\* norm_brand, on the labels of the model (upper-case brand names)
norm_brand(gold_type) == IF gold_type = "" THEN "UNKNOWN" ELSE gold_type

\* coalesce_ts: the timestamp if it parses, else date and time, else now
coalesce_ts(item, utcnow) ==
    IF item.timestamp.kind = "iso"
    THEN [d |-> item.timestamp.d, t |-> item.timestamp.t]
    ELSE IF item.date # NoDate
    THEN [d |-> item.date, t |-> item.time]
    ELSE utcnow

\* coalesce_date: the date field if present, else the day of the
\* timestamp if it parses, else today
coalesce_date(item, utcnow) ==
    IF item.date # NoDate THEN item.date
    ELSE IF item.timestamp.kind = "iso" THEN item.timestamp.d
    ELSE utcnow.d

\* the tuple upsert builds for one item, without the source
RowOf(item, utcnow) ==
    [brand |-> norm_brand(item.gold_type),
     tsd |-> coalesce_ts(item, utcnow).d, tst |-> coalesce_ts(item, utcnow).t,
     date |-> coalesce_date(item, utcnow), val |-> item.val]

\* upsert of a one-item batch, `it` the tuple built for the item:
\* INSERT ... ON CONFLICT(brand, ts) DO UPDATE SET date, buy_price,
\* sell_price, source
upsert(T, it, source) ==
    {r \in T : ~(r.brand = it.brand /\ r.tsd = it.tsd /\ r.tst = it.tst)}
    \cup {[brand |-> it.brand, tsd |-> it.tsd, tst |-> it.tst,
           date |-> it.date, val |-> it.val, source |-> source]}

\* prune: DELETE FROM vn_gold WHERE date < cutoff_date
prune(T, cutoff_date) == {r \in T : ~(r.date < cutoff_date)}

\* ---------------------------------------------------------------- state
\* pc: "idle", or "archived" inside prune_table_keep_last_n_days between
\*     the return of archive_rows and conn.commit()
\* pending: the locals of the prune run that is at "archived"
\* pruned: per table, the rows the Retention Pruner has deleted
\* last: the last operation that changed the store, with its return value
\* ops: the number of such operations so far
\* ingest: the payload, the clock and the runs of the ingestion path;
\*     ingest.crawl: one run of the crawler as a program (its position, its
\*     --days, the list parsed, what crawl() returns, the exit status, the
\*     content of vn_raw.json)
\* orch: the locals of one invocation of daily_update.main
NoCrawl == [pc |-> "none", days |-> 0, parsed |-> <<>>, json_path |-> "None",
            data |-> <<>>, exit |-> 0, latest |-> <<>>]
NoIngest == [payload |-> <<>>, utcnow |-> [d |-> 0, t |-> 0], at |-> <<>>, once |-> 0,
             crawl |-> NoCrawl]
NoOrch == [pc |-> "none", world |-> FALSE, vn |-> FALSE, K |-> 0, json |-> FALSE,
           rc |-> 0, ran |-> <<>>, log |-> {}]
NoPending == [table |-> "none", K |-> 0, cutoff |-> 0, archived |-> 0, file |-> <<"none", 0>>]
LastOf(op, t, K, ret) == [op |-> op, table |-> t, K |-> K, ret |-> ret]

Init ==
    /\ world_gold = {}
    /\ vn_gold = {}
    /\ archive = [f \in Tables \X Seconds |-> NoFile]
    /\ clock = 0
    /\ pc = "idle"
    /\ pending = NoPending
    /\ pruned = [t \in Tables |-> {}]
    /\ last = LastOf("init", "none", 0, 0)
    /\ ops = 0
    /\ ingest = NoIngest
    /\ orch = NoOrch

SetTable(t, T) ==
    /\ world_gold' = IF t = "world_gold" THEN T ELSE world_gold
    /\ vn_gold' = IF t = "vn_gold" THEN T ELSE vn_gold

\* ingest_world_fx_3m.upsert_world, for a one-row frame:
\* INSERT ... ON CONFLICT(date) DO UPDATE SET <numeric columns>, source
upsert_world(T, d, v) ==
    {r \in T : r.date # d} \cup {[date |-> d, val |-> v, source |-> YFINANCE]}

IngestWorld(d, v) ==
    /\ pc = "idle"
    /\ vn_gold = {}
    /\ ops < MaxOps
    /\ upsert_world(world_gold, d, v) # world_gold
    /\ world_gold' = upsert_world(world_gold, d, v)
    /\ last' = LastOf("ingest", "world_gold", 0, 1)
    /\ ops' = ops + 1
    /\ UNCHANGED <<vn_gold, archive, clock, pc, pending, pruned, ingest, orch>>

\* the items of a JSON file: those the crawler writes (one quote per brand
\* and day at 12:00:00, the date field the day of the timestamp), and an
\* item whose date field names another day than its timestamp
JsonItems ==
    {[gold_type |-> b, timestamp |-> Iso(d, t), date |-> d, time |-> t, val |-> v] :
        b \in Brands, d \in Days, t \in ImportTimes, v \in VnVals}
    \cup {[gold_type |-> "PNJ", timestamp |-> Iso(1, 0), date |-> 2, time |-> 0,
           val |-> 12]}

\* every item above names its timestamp and its date: utcnow is not read
LastDayNoon == [d |-> MaxDay, t |-> 0]
Items == {RowOf(j, LastDayNoon) : j \in JsonItems}

\* import_vn_from_json.main as daily_update runs it (--source cafef
\* --prune), for a one-item file; cutoff is utcnow().date() - retention_days
ImportVn(it, cutoff) ==
    /\ pc = "idle"
    /\ world_gold = {}
    /\ ops < MaxOps
    /\ prune(upsert(vn_gold, it, CAFEF), cutoff) # vn_gold
    /\ vn_gold' = prune(upsert(vn_gold, it, CAFEF), cutoff)
    /\ last' = LastOf("import", "vn_gold", 0, 1)
    /\ ops' = ops + 1
    /\ UNCHANGED <<world_gold, archive, clock, pc, pending, pruned, ingest, orch>>

\* forward_fill_table(conn, "world_gold", ..., keep_days=K), committed; a
\* run that inserts nothing leaves every variable as it is
FillWorld(K) ==
    /\ pc = "idle"
    /\ \E res \in {forward_fill_table(world_gold, K)} :
           IF res.inserted = 0 /\ res.table = world_gold
           THEN UNCHANGED vars
           ELSE /\ ops < MaxOps
                /\ world_gold' = res.table
                /\ last' = LastOf("fill", "world_gold", K, res.inserted)
                /\ ops' = ops + 1
                /\ UNCHANGED <<vn_gold, archive, clock, pc, pending, pruned, ingest, orch>>

\* forward_fill_vn_gold(conn, keep_days=K), committed
FillVn(K) ==
    /\ pc = "idle"
    /\ \E res \in {forward_fill_vn_gold(vn_gold, K)} :
           IF res.inserted = 0 /\ res.table = vn_gold
           THEN UNCHANGED vars
           ELSE /\ ops < MaxOps
                /\ vn_gold' = res.table
                /\ last' = LastOf("fill", "vn_gold", K, res.inserted)
                /\ ops' = ops + 1
                /\ UNCHANGED <<world_gold, archive, clock, pc, pending, pruned, ingest, orch>>

\* variant: a prune without `if not to_delete: return 0`
PruneReturns0_unguarded(T, K) == distinct_dates(T, K) = {}

\* the condition under which prune_table_keep_last_n_days takes one of its
\* two `return 0`: no distinct date selected, or no row older than cutoff_keep
PruneReturns0(T, K) ==
    LET dd == distinct_dates(T, K)
    IN  IF dd = {} THEN TRUE ELSE to_delete(T, MinOf(dd)) = {}

\* prune_table_keep_last_n_days returning 0: nothing written, nothing deleted
PruneReturn0(t, K) ==
    /\ pc = "idle"
    /\ PruneReturns0(TableOf(t), K)
    /\ UNCHANGED vars

\* datetime.now() in ts_for_file(): the second of the last archive file
\* written, or a later one. Seconds in which no file is written name no
\* file and are not counted.
Nows == {clock} \cup {c \in {clock + 1} : \E t \in Tables : archive[<<t, clock>>].exists}

\* prune_table_keep_last_n_days up to the return of archive_rows
PruneArchive(t, K) ==
    /\ pc = "idle"
    /\ ops < MaxOps
    /\ ~PruneReturns0(TableOf(t), K)
    /\ \E now \in Nows, cutoff_keep \in {MinOf(distinct_dates(TableOf(t), K))} :
        \E rows \in {to_delete(TableOf(t), cutoff_keep)} :
            /\ archive' = archive_rows(rows, t, now)
            /\ pending' = [table |-> t, K |-> K, cutoff |-> cutoff_keep,
                           archived |-> Cardinality(rows), file |-> <<t, now>>]
            /\ clock' = now
    /\ pc' = "archived"
    /\ last' = LastOf("archive", t, K, 0)
    /\ ops' = ops + 1
    /\ UNCHANGED <<world_gold, vn_gold, pruned, ingest, orch>>

\* conn.execute(DELETE ...); conn.commit(); return archived
PruneDelete ==
    /\ pc = "archived"
    /\ \E t \in {pending.table} :
       \E T \in {DeleteOlder(TableOf(t), pending.cutoff)} :
           /\ SetTable(t, T)
           /\ pruned' = [pruned EXCEPT ![t] = @ \cup (TableOf(t) \ T)]
           /\ last' = LastOf("prune", t, pending.K, pending.archived)
    /\ pc' = "idle"
    /\ pending' = NoPending
    /\ UNCHANGED <<archive, clock, ops, ingest, orch>>

\* an exception, or the end of the process, between the return of
\* archive_rows and conn.commit(): the DELETE, if issued, is rolled back
PruneFail ==
    /\ pc = "archived"
    /\ pc' = "idle"
    /\ last' = LastOf("prune_failed", pending.table, pending.K, 0)
    /\ pending' = NoPending
    /\ UNCHANGED <<world_gold, vn_gold, archive, clock, pruned, ops, ingest, orch>>

\* A behaviour follows a deployment that runs daily_update with --world
\* only (vn_gold stays empty) or with --vn only (world_gold stays empty).
Next ==
    \/ \E d \in Days, v \in Vals : IngestWorld(d, v)
    \/ \E it \in Items, cutoff \in TrimCutoffs : ImportVn(it, cutoff)
    \/ \E K \in Ks : FillWorld(K)
    \/ \E K \in Ks : FillVn(K)
    \/ \E t \in Tables, K \in Ks : PruneReturn0(t, K)
    \/ \E t \in Tables, K \in Ks : PruneArchive(t, K)
    \/ PruneDelete
    \/ PruneFail

Spec == Init /\ [][Next]_vars

\* ------------------------------------------- the Gap Filler on any source
\* The source column takes any text and NULL (rows written by other tools,
\* import_vn_from_json --source <text>): the strings of at most MaxSrcLen
\* tokens, the empty string and NULL.
SrcTokens == {"+", "ffill", "cafef"}
Sources ==
    {NULL} \cup UNION {[1..n -> SrcTokens] : n \in 0..MaxSrcLen}

\* a series with one row of any source, a gap, and a later row
InitSource ==
    /\ \E s \in Sources, d \in {2, 3} :
          \/ /\ world_gold = {[date |-> 0, val |-> 10, source |-> s],
                              [date |-> d, val |-> 12, source |-> YFINANCE]}
             /\ vn_gold = {}
          \/ /\ world_gold = {}
             /\ vn_gold = {[brand |-> "PNJ", tsd |-> 0, tst |-> 0, date |-> 0,
                            val |-> 10, source |-> s],
                           [brand |-> "PNJ", tsd |-> d, tst |-> 0, date |-> d,
                            val |-> 12, source |-> CAFEF]}
    /\ archive = [f \in Tables \X Seconds |-> NoFile]
    /\ clock = 0
    /\ pc = "idle"
    /\ pending = NoPending
    /\ pruned = [t \in Tables |-> {}]
    /\ last = LastOf("init", "none", 0, 0)
    /\ ops = 0
    /\ ingest = NoIngest
    /\ orch = NoOrch

NextSource ==
    \/ \E K \in Ks : FillWorld(K)
    \/ \E K \in Ks : FillVn(K)

SpecSource == InitSource /\ [][NextSource]_vars

\* ------------------------------------------------- crawl and import
\* An upstream item is [name, createdAt, buyPrice, sellPrice]: createdAt is
\* a timestamp as in a JSON item (parse_date_any returns its instant, or
\* None for a missing key or a string of no accepted format); a price is a
\* number, or NoPrice when no candidate field of the item holds a value
\* float() accepts. Instants are whole seconds.
NoPrice == -1
UpItems ==
    {[name |-> b, createdAt |-> c, buyPrice |-> v, sellPrice |-> v] :
        b \in Brands, c \in {Iso(0, 0), Iso(1, 0), NoTimestamp, BadTimestamp},
        v \in VnVals}

Payloads == UNION {[1..n -> UpItems] : n \in 1..MaxPayload}

\* --retention-days (default), passed as --days to the crawler and as
\* --retention-days to the importer
retention_days == 365

InstLeq(a, b) == a.d < b.d \/ (a.d = b.d /\ a.t <= b.t)

\* dt_obj = parse_date_any(date_val) or to_naive(datetime.utcnow())
dt_obj(item, utcnow) ==
    IF item.createdAt.kind = "iso"
    THEN [d |-> item.createdAt.d, t |-> item.createdAt.t]
    ELSE utcnow

\* the truth value Python gives a price: None and 0.0 are false
Truthy(price) == price # NoPrice /\ price # 0

\* if name == "SJC" and buy_price and buy_price < 200_000
Scales(item) ==
    item.name = "SJC" /\ Truthy(item.buyPrice) /\ item.buyPrice < 200000

\* buy_price *= 1_000_000
buy_price(item) ==
    IF Scales(item) THEN item.buyPrice * 1000000 ELSE item.buyPrice

\* if sell_price: sell_price *= 1_000_000, inside the branch of buy_price
sell_price(item) ==
    IF Scales(item) /\ Truthy(item.sellPrice) THEN item.sellPrice * 1000000
    ELSE item.sellPrice

\* float(price or 0)
OrZero(price) == IF Truthy(price) THEN price ELSE 0

\* the record parse_gold_data appends for one item
Normalize(item, utcnow) ==
    [gold_type |-> item.name,
     timestamp |-> Iso(dt_obj(item, utcnow).d, dt_obj(item, utcnow).t),
     date |-> dt_obj(item, utcnow).d, time |-> dt_obj(item, utcnow).t,
     buy_price |-> OrZero(buy_price(item)),
     sell_price |-> OrZero(sell_price(item))]

\* the dedup key (date, time, gold_type, buy_price, sell_price)
DedupKey(it) == <<it.date, it.time, it.gold_type, it.buy_price, it.sell_price>>

\* variant: a loop that keeps the last record of a key
RECURSIVE Dedup_keep_last(_, _)
Dedup_keep_last(records, seen) ==
    IF records = <<>> THEN <<>>
    ELSE IF \E i \in 2..Len(records) : DedupKey(records[i]) = DedupKey(Head(records))
    THEN Dedup_keep_last(Tail(records), seen)
    ELSE <<Head(records)>> \o Dedup_keep_last(Tail(records), seen)

\* the Deduplicate loop: the first record of a key is kept
RECURSIVE Dedup(_, _)
Dedup(records, seen) ==
    IF records = <<>> THEN <<>>
    ELSE IF DedupKey(Head(records)) \in seen THEN Dedup(Tail(records), seen)
    ELSE <<Head(records)>>
         \o Dedup(Tail(records), seen \cup {DedupKey(Head(records))})

\* list.sort(key=to_naive(timestamp)): stable, ascending
RECURSIVE InsertSorted(_, _)
InsertSorted(sorted, it) ==
    IF sorted = <<>> THEN <<it>>
    ELSE IF InstLeq([d |-> Head(sorted).timestamp.d, t |-> Head(sorted).timestamp.t],
                    [d |-> it.timestamp.d, t |-> it.timestamp.t])
    THEN <<Head(sorted)>> \o InsertSorted(Tail(sorted), it)
    ELSE <<it>> \o sorted

RECURSIVE SortByTs(_)
SortByTs(records) ==
    IF records = <<>> THEN <<>>
    ELSE InsertSorted(SortByTs(SubSeq(records, 1, Len(records) - 1)),
                      records[Len(records)])

parse_gold_data(raw, utcnow) ==
    SortByTs(Dedup([i \in 1..Len(raw) |-> Normalize(raw[i], utcnow)], {}))

\* variant: a filter that drops the record dated exactly at the cutoff
WindowFilter_open(records, days, utcnow) ==
    SelectSeq(records,
              LAMBDA x : ~InstLeq([d |-> x.timestamp.d, t |-> x.timestamp.t],
                                  [d |-> utcnow.d - days, t |-> utcnow.t]))

\* crawl: the filter to the last `days` days
WindowFilter(records, days, utcnow) ==
    SelectSeq(records,
              LAMBDA x : InstLeq([d |-> utcnow.d - days, t |-> utcnow.t],
                                 [d |-> x.timestamp.d, t |-> x.timestamp.t]))

\* a record of the JSON file as the importer reads it; the numeric columns
\* of a stored row are one value, of a record its buy_price
AsItem(rec) ==
    [gold_type |-> rec.gold_type, timestamp |-> rec.timestamp,
     date |-> rec.date, time |-> rec.time, val |-> rec.buy_price]

\* upsert of a batch: executemany applies the statement item by item
RECURSIVE upsert_all(_, _, _, _)
upsert_all(T, items, source, utcnow) ==
    IF items = <<>> THEN T
    ELSE upsert_all(upsert(T, RowOf(AsItem(Head(items)), utcnow), source),
                    Tail(items), source, utcnow)

\* nothing stored, a payload to ingest, the clock at noon of day 1
InitIngest ==
    /\ world_gold = {}
    /\ vn_gold = {}
    /\ archive = [f \in Tables \X Seconds |-> NoFile]
    /\ clock = 0
    /\ pc = "idle"
    /\ pending = NoPending
    /\ pruned = [t \in Tables |-> {}]
    /\ last = LastOf("init", "none", 0, 0)
    /\ ops = 0
    /\ \E p \in Payloads :
          ingest = [payload |-> p, utcnow |-> [d |-> 1, t |-> 0], at |-> <<>>,
                    once |-> 0, crawl |-> NoCrawl]
    /\ orch = NoOrch

\* time passes: a second, or the night to the next noon
Tick ==
    /\ \E next \in {[d |-> ingest.utcnow.d, t |-> ingest.utcnow.t + 1],
                     [d |-> ingest.utcnow.d + 1, t |-> 0]} :
          /\ next.d <= MaxDay /\ next.t <= 1
          /\ ingest' = [ingest EXCEPT !.utcnow = next]
    /\ UNCHANGED <<world_gold, vn_gold, archive, clock, pc, pending, pruned,
                   last, ops, orch>>

\* daily_update.main, step 2: the crawler normalizes the payload, filters
\* it to the window and writes vn_raw.json; import_vn_from_json upserts the
\* file and trims
CrawlAndImport ==
    /\ Len(ingest.at) < MaxRuns
    /\ \E parsed \in {WindowFilter(parse_gold_data(ingest.payload, ingest.utcnow),
                                   retention_days, ingest.utcnow)} :
       \E T \in {prune(upsert_all(vn_gold, parsed, CAFEF, ingest.utcnow),
                       ingest.utcnow.d - retention_days)} :
          /\ vn_gold' = T
          /\ ingest' = [ingest EXCEPT
                           !.at = Append(@, ingest.utcnow),
                           !.once = IF ingest.at = <<>> THEN Cardinality(T) ELSE @]
    /\ UNCHANGED <<world_gold, archive, clock, pc, pending, pruned, last, ops,
                   orch>>

NextIngest == Tick \/ CrawlAndImport

SpecIngest == InitIngest /\ [][NextIngest]_vars

\* ------------------------------------------------- the crawler alone
\* One run of gold_price_focused_crawler on the items of the fetched
\* responses: items of one price at several instants (and one without a
\* timestamp), and items of one instant with present, absent, small and
\* large prices (none whose product with 1_000_000 leaves the integers of
\* the checker).
MaxRaw == 3
RawItems ==
    {[name |-> "PNJ", createdAt |-> c, buyPrice |-> 300000, sellPrice |-> 300000] :
        c \in {Iso(1, 0), Iso(2, 0), Iso(3, 0), NoTimestamp}}
    \cup {[name |-> "SJC", createdAt |-> Iso(2, 0), buyPrice |-> p[1], sellPrice |-> p[2]] :
            p \in {<<NoPrice, NoPrice>>, <<180, 180>>, <<NoPrice, 180>>,
                    <<200000, 180>>}}
    \cup {[name |-> "PNJ", createdAt |-> Iso(2, 0), buyPrice |-> 180, sellPrice |-> 180]}

RawPayloads == UNION {[1..n -> RawItems] : n \in 0..MaxRaw}

\* --days: 0 (no filter) or a number of trailing days
CrawlDays == {0, 1, 2}

\* if args.days and args.days > 0: the filter; else the list as parsed
Filtered(parsed, days, utcnow) ==
    IF days > 0 THEN WindowFilter(parsed, days, utcnow) ELSE parsed

\* crawl(): (None, None) without raw data, without a parsed record, or
\* without a record left by the filter; else the paths of the files saved
crawl(raw, days, utcnow) ==
    LET parsed == parse_gold_data(raw, utcnow)
        kept == Filtered(parsed, days, utcnow)
    IN  IF raw = <<>> \/ parsed = <<>> \/ kept = <<>>
        THEN [json_path |-> "None", data |-> <<>>]
        ELSE [json_path |-> "saved", data |-> kept]

\* main: if not json_path: sys.exit(2); else the process ends with 0
exit_status(json_path) == IF json_path = "None" THEN 2 ELSE 0

\* nothing stored, the responses fetched, the clock at noon of day 3
InitCrawl ==
    /\ world_gold = {}
    /\ vn_gold = {}
    /\ archive = [f \in Tables \X Seconds |-> NoFile]
    /\ clock = 0
    /\ pc = "idle"
    /\ pending = NoPending
    /\ pruned = [t \in Tables |-> {}]
    /\ last = LastOf("init", "none", 0, 0)
    /\ ops = 0
    /\ \E p \in RawPayloads :
          ingest = [payload |-> p, utcnow |-> [d |-> 3, t |-> 0], at |-> <<>>,
                    once |-> 0, crawl |-> [NoCrawl EXCEPT !.pc = "start"]]
    /\ orch = NoOrch

\* crawler.crawl(args) returns
CrawlRun(days) ==
    /\ ingest.crawl.pc = "start"
    /\ \E res \in {crawl(ingest.payload, days, ingest.utcnow)} :
          ingest' = [ingest EXCEPT
                        !.crawl = [@ EXCEPT
                            !.pc = "returned", !.days = days,
                            !.parsed = parse_gold_data(ingest.payload, ingest.utcnow),
                            !.json_path = res.json_path, !.data = res.data]]
    /\ UNCHANGED <<world_gold, vn_gold, archive, clock, pc, pending, pruned,
                   last, ops, orch>>

\* main: sys.exit(2) without a json_path; else the copy to vn_raw.json,
\* which is written or not (a failure of the copy is a warning), and the
\* exit status 0
CrawlExit ==
    /\ ingest.crawl.pc = "returned"
    /\ IF ingest.crawl.json_path = "None"
       THEN ingest' = [ingest EXCEPT
                          !.crawl = [@ EXCEPT !.pc = "exited",
                                              !.exit = exit_status(ingest.crawl.json_path)]]
       ELSE \E latest \in {ingest.crawl.data, ingest.crawl.latest} :
              ingest' = [ingest EXCEPT
                            !.crawl = [@ EXCEPT !.pc = "exited",
                                                !.exit = exit_status(ingest.crawl.json_path),
                                                !.latest = latest]]
    /\ UNCHANGED <<world_gold, vn_gold, archive, clock, pc, pending, pruned,
                   last, ops, orch>>

NextCrawl ==
    \/ \E days \in CrawlDays : CrawlRun(days)
    \/ CrawlExit

SpecCrawl == InitCrawl /\ [][NextCrawl]_vars

\* ------------------------------------------------- daily_update.main
\* orch is the state of one invocation: pc the position in main, world and
\* vn the flags --world and --vn, K --retention-days, json whether
\* <outdir>/<basename>.json exists, rc the local rc, ran the steps executed
\* so far with their status (the exit code of a subprocess, 0 for a table
\* step that returned, the status of the block for one that raised), log
\* the kinds of message appended to the log file.
\* The table usd_vnd is not stored in the model: its fill and its prune are
\* steps that return or raise.
MainKs == {2, 3}
ExitMissing == 2
ExitBlock == 3
\* exit codes of the subprocesses: 1 for an uncaught exception, 2 for the
\* crawler's sys.exit(2)
WorldCodes == {0, 1}
CrawlCodes == {0, 2}
ImportCodes == {0, 1}

\* the calls of the try block, in program order
BlockSteps == <<"fill_world_gold", "fill_usd_vnd", "fill_vn_gold",
                "prune_world_gold", "prune_usd_vnd", "prune_vn_gold">>
FillSteps == {"fill_world_gold", "fill_usd_vnd", "fill_vn_gold"}
PruneSteps == {"prune_world_gold", "prune_usd_vnd", "prune_vn_gold"}
IngestSteps == {"world_ingest", "crawl", "import", "missing_json"}

IndexOf(step) == CHOOSE i \in 1..Len(BlockSteps) : BlockSteps[i] = step

\* a try block that prunes world_gold before it fills vn_gold
prune_before_fill(step) ==
    IF step = "fill_usd_vnd" THEN "prune_world_gold"
    ELSE IF step = "prune_world_gold" THEN "fill_vn_gold"
    ELSE IF step = "fill_vn_gold" THEN "prune_usd_vnd"
    ELSE IF step = "prune_vn_gold" THEN "end"
    ELSE BlockSteps[IndexOf(step) + 1]

\* where control goes when the call `step` returns
next_step(step) ==
    IF IndexOf(step) = Len(BlockSteps) THEN "end" ELSE BlockSteps[IndexOf(step) + 1]

TableOfStep(step) ==
    IF step \in {"fill_world_gold", "prune_world_gold"} THEN "world_gold"
    ELSE IF step \in {"fill_vn_gold", "prune_vn_gold"} THEN "vn_gold"
    ELSE "usd_vnd"

\* if code != 0: rc = code
rc_world(rc, code) == IF code # 0 THEN code ELSE rc

\* a main that lets a later failing step replace the remembered status
last_nonzero(rc, code) == IF code # 0 THEN code ELSE rc

\* if code != 0 and rc == 0: rc = code
first_nonzero(rc, code) == IF code # 0 /\ rc = 0 THEN code ELSE rc

\* a main that imports only what the crawl of this invocation wrote
import_after_crawl(json, code1) == json /\ code1 = 0

\* if json_path.exists(): the status code1 of the crawl is not consulted
import_runs(json, code1) == json

\* a main that stops at the first failing step
fail_fast(rc, to) == IF rc = 0 THEN to ELSE "end"

\* no step of main is guarded by rc: after a step, whatever its status,
\* control goes to the next one
proceed(rc, to) == to

\* a store that keeps what the open transaction had written
commit_view(committed, view) == view

\* `with sqlite3.connect(DB_PATH) as conn` left by an exception: the
\* connection rolls back, the store keeps the committed table and loses
\* the view of the open transaction
rollback(committed, view) == committed

Ran(step, status) == [step |-> step, status |-> status]

InitMain ==
    /\ world_gold \in
          {{[date |-> d, val |-> 10, source |-> YFINANCE] : d \in D} : D \in {{0}, {0, 2}}}
    /\ vn_gold \in
          {{[brand |-> "PNJ", tsd |-> 0, tst |-> 0, date |-> 0, val |-> 10,
             source |-> CAFEF],
            [brand |-> b, tsd |-> 2, tst |-> 0, date |-> 2, val |-> 10,
             source |-> CAFEF]} : b \in Brands}
    /\ archive = [f \in Tables \X Seconds |-> NoFile]
    /\ clock = 0
    /\ pc = "idle"
    /\ pending = NoPending
    /\ pruned = [t \in Tables |-> {}]
    /\ last = LastOf("init", "none", 0, 0)
    /\ ops = 0
    /\ ingest = NoIngest
    /\ \E w \in BOOLEAN, v \in BOOLEAN, K \in MainKs, j \in BOOLEAN :
          orch = [pc |-> "start", world |-> w, vn |-> v, K |-> K, json |-> j,
                  rc |-> 0, ran |-> <<>>, log |-> {}]

\* the variables main and its subprocesses never touch
MainFrame == UNCHANGED <<clock, pc, pending, last, ops, ingest>>

\* lines 266-275: nothing selected returns 0; else the log is opened
MainStart ==
    /\ orch.pc = "start"
    /\ IF ~orch.world /\ ~orch.vn
       THEN orch' = [orch EXCEPT !.pc = "done"]
       ELSE orch' = [orch EXCEPT !.pc = "world", !.log = @ \cup {"start"}]
    /\ UNCHANGED <<world_gold, vn_gold, archive, pruned>>
    /\ MainFrame

\* 1) WORLD + FX: ingest_world_fx_3m as a subprocess; exit code 0 after it
\* has upserted and committed the fetched rows (here the row of day 3)
MainWorld ==
    /\ orch.pc = "world"
    /\ IF orch.world
       THEN \E code \in WorldCodes :
              /\ orch' = [orch EXCEPT !.pc = proceed(rc_world(orch.rc, code), "crawl"),
                                      !.rc = rc_world(@, code),
                                      !.ran = Append(@, Ran("world_ingest", code)),
                                      !.log = @ \cup {"world_ingest"}]
              /\ world_gold' = IF code = 0 THEN upsert_world(world_gold, 3, 12)
                                ELSE world_gold
       ELSE orch' = [orch EXCEPT !.pc = "crawl"] /\ UNCHANGED world_gold
    /\ UNCHANGED <<vn_gold, archive, pruned>>
    /\ MainFrame

\* 2) the crawler as a subprocess: exit code 2 without data; with data it
\* copies the JSON to vn_raw.json, or warns and still exits 0
MainCrawl ==
    /\ orch.pc = "crawl"
    /\ IF orch.vn
       THEN \E code1 \in CrawlCodes :
            \E j \in IF code1 = 0 THEN {TRUE, orch.json} ELSE {orch.json} :
              orch' = [orch EXCEPT !.pc = proceed(first_nonzero(orch.rc, code1), "import"),
                                   !.rc = first_nonzero(@, code1),
                                   !.ran = Append(@, Ran("crawl", code1)),
                                   !.log = @ \cup {"crawl"},
                                   !.json = j]
       ELSE orch' = [orch EXCEPT !.pc = proceed(orch.rc, BlockSteps[1])]
    /\ UNCHANGED <<world_gold, vn_gold, archive, pruned>>
    /\ MainFrame

\* import VN JSON if exists, else the missing-input message; exit code 0
\* after the importer has upserted the file (here one PNJ quote of day 3)
\* and trimmed with --retention-days K --prune
MainImport ==
    /\ orch.pc = "import"
    /\ IF import_runs(orch.json, orch.ran[Len(orch.ran)].status)
       THEN \E code2 \in ImportCodes :
              /\ orch' = [orch EXCEPT !.pc = proceed(first_nonzero(orch.rc, code2), BlockSteps[1]),
                                      !.rc = first_nonzero(@, code2),
                                      !.ran = Append(@, Ran("import", code2)),
                                      !.log = @ \cup {"import"}]
              /\ vn_gold' =
                    IF code2 = 0
                    THEN prune(upsert(vn_gold,
                                      RowOf([gold_type |-> "PNJ", timestamp |-> Iso(3, 0),
                                             date |-> 3, time |-> 0, val |-> 10],
                                            [d |-> 3, t |-> 0]),
                                      CAFEF),
                               3 - orch.K)
                    ELSE vn_gold
       ELSE /\ orch' = [orch EXCEPT !.pc = proceed(first_nonzero(orch.rc, ExitMissing), BlockSteps[1]),
                                    !.rc = first_nonzero(@, ExitMissing),
                                    !.ran = Append(@, Ran("missing_json", ExitMissing)),
                                    !.log = @ \cup {"missing_json"}]
            /\ UNCHANGED vn_gold
    /\ UNCHANGED <<world_gold, archive, pruned>>
    /\ MainFrame

\* 3a) a forward-fill call returns: its inserts are committed
MainFill ==
    /\ orch.pc \in FillSteps
    /\ orch' = [orch EXCEPT !.pc = next_step(orch.pc),
                            !.ran = Append(@, Ran(orch.pc, 0)),
                            !.log = @ \cup {"forward-fill"}]
    /\ world_gold' = IF orch.pc = "fill_world_gold"
                      THEN forward_fill_table(world_gold, orch.K).table
                      ELSE world_gold
    /\ vn_gold' = IF orch.pc = "fill_vn_gold"
                   THEN forward_fill_vn_gold(vn_gold, orch.K).table
                   ELSE vn_gold
    /\ UNCHANGED <<archive, pruned>>
    /\ MainFrame

\* 3b) a prune call returns: 0 without touching anything, or the count
\* after the archive file is written and the DELETE is committed
MainPrune ==
    /\ orch.pc \in PruneSteps
    /\ orch' = [orch EXCEPT !.pc = next_step(orch.pc),
                            !.ran = Append(@, Ran(orch.pc, 0)),
                            !.log = @ \cup {"prune"}]
    /\ \E t \in {TableOfStep(orch.pc)} :
          IF t = "usd_vnd" \/ (t # "usd_vnd" /\ PruneReturns0(TableOf(t), orch.K))
          THEN UNCHANGED <<world_gold, vn_gold, archive, pruned>>
          ELSE \E cutoff_keep \in {MinOf(distinct_dates(TableOf(t), orch.K))} :
                 /\ archive' = archive_rows(to_delete(TableOf(t), cutoff_keep), t, clock)
                 /\ SetTable(t, DeleteOlder(TableOf(t), cutoff_keep))
                 /\ pruned' = [pruned EXCEPT ![t] = @ \cup to_delete(TableOf(t), cutoff_keep)]
    /\ MainFrame

\* the views a call can have of its table when it raises: for a fill, the
\* table with any part of its inserts; for a prune, the table before or
\* after the DELETE
ViewsAt(step) ==
    IF TableOfStep(step) = "usd_vnd" THEN {{}}
    ELSE LET t == TableOfStep(step)
             T == TableOf(t)
         IN  IF step \in FillSteps
             THEN {T \cup P : P \in SUBSET
                     ((IF t = "world_gold" THEN forward_fill_table(T, orch.K)
                       ELSE forward_fill_vn_gold(T, orch.K)).table \ T)}
             ELSE IF PruneReturns0(T, orch.K) THEN {T}
             ELSE {T, DeleteOlder(T, MinOf(distinct_dates(T, orch.K)))}

\* a call of the try block raises before its commit: control leaves the
\* `with` block (rollback) and enters `except Exception`; a prune may have
\* written its archive file before
MainRaise ==
    /\ orch.pc \in FillSteps \cup PruneSteps
    /\ orch' = [orch EXCEPT !.pc = "end",
                            !.rc = first_nonzero(@, ExitBlock),
                            !.ran = Append(@, Ran(orch.pc, ExitBlock)),
                            !.log = @ \cup {"failed"}]
    /\ \E t \in {TableOfStep(orch.pc)}, view \in ViewsAt(orch.pc) :
          /\ IF t = "usd_vnd" THEN UNCHANGED <<world_gold, vn_gold>>
             ELSE SetTable(t, rollback(TableOf(t), view))
          /\ \/ UNCHANGED archive
             \/ /\ orch.pc \in PruneSteps /\ t # "usd_vnd"
                /\ view # TableOf(t)
                /\ archive' = archive_rows(TableOf(t) \ view, t, clock)
    /\ UNCHANGED pruned
    /\ MainFrame

\* lines 340-342: the end of the log, the report, return rc
MainEnd ==
    /\ orch.pc = "end"
    /\ orch' = [orch EXCEPT !.pc = "done", !.log = @ \cup {"end"}]
    /\ UNCHANGED <<world_gold, vn_gold, archive, pruned>>
    /\ MainFrame

NextMain ==
    \/ MainStart
    \/ MainWorld
    \/ MainCrawl
    \/ MainImport
    \/ MainFill
    \/ MainPrune
    \/ MainRaise
    \/ MainEnd

SpecMain == InitMain /\ [][NextMain]_vars

\* ================================================================ properties
TableOfNext(t) == IF t = "world_gold" THEN world_gold' ELSE vn_gold'

\* the step on which a prune run commits and returns its count
PruneCommits == pc = "archived" /\ pc' = "idle" /\ last'.op = "prune"
\* the step on which a prune run has written its archive file
PruneArchives == pc = "idle" /\ pc' = "archived"

FilesOf(t) == {f \in DOMAIN archive : f[1] = t /\ archive[f].exists}

\* the primary key of a row of table t
KeyOf(t, r) == IF t = "world_gold" THEN <<r.date>> ELSE <<r.brand, r.tsd, r.tst>>

\* the K-th largest of the dates S, for 1 <= K <= Cardinality(S)
KthLargestDate(S, K) == CHOOSE d \in S : Cardinality({e \in S : e >= d}) = K

\* C1: in every reachable state, a crash between the archive write and the
\* commit included, every row the Retention Pruner has removed from a table
\* and that is not in the table is contained in at least one archive file.
C1_PrunedRowsArchived ==
    \A t \in Tables : \A r \in pruned[t] \ TableOf(t) :
        \E f \in FilesOf(t) : r \in archive[f].rows

\* C2: the count a prune run returns is the number of rows the run removed
\* from the table and the number of rows in the archive file the run wrote.
\* (A run that returns 0 changes nothing and writes no file: PruneReturn0.)
C2_CountIsRemovedIsArchived ==
    [][PruneCommits =>
        LET t == pending.table
        IN  /\ TableOfNext(t) \subseteq TableOf(t)
            /\ last'.ret = Cardinality(TableOf(t) \ TableOfNext(t))
            /\ archive'[pending.file].exists
            /\ last'.ret = Cardinality(archive'[pending.file].rows)]_vars

\* a prune run has returned 2 after removing two rows, its file holds them
C2_Witness ==
    /\ last.op = "prune" /\ last.ret = 2
    /\ \E f \in FilesOf(last.table) :
          /\ Cardinality(archive[f].rows) = 2
          /\ archive[f].rows \subseteq pruned[last.table]
          /\ archive[f].rows \cap TableOf(last.table) = {}

\* C3: after prune_table_keep_last_n_days(table, date_col, K) returns, for
\* any table contents and any K the caller passes, at most K distinct dates
\* remain: after a run that deleted rows, and after a run that returned 0.
C3_AtMostKDates ==
    /\ last.op = "prune" =>
          Cardinality(DatesOf(TableOf(last.table))) <= last.K
    /\ \A t \in Tables : \A K \in Ks :
          pc = "idle" /\ PruneReturns0(TableOf(t), K) =>
              Cardinality(DatesOf(TableOf(t))) <= K

\* C4: a prune run with K partitions the table at cutoff = the K-th largest
\* distinct date: the archive file the run writes holds exactly the rows
\* dated before cutoff, the rows remaining are exactly those dated cutoff or
\* later; with fewer than K distinct dates the run returns 0, so it deletes
\* nothing and writes no file.
C4_PartitionAtKthLargest ==
    [][/\ PruneArchives =>
            LET T == TableOf(pending'.table)
                K == pending'.K
            IN  /\ 1 <= K /\ K <= Cardinality(DatesOf(T))
                /\ pending'.cutoff = KthLargestDate(DatesOf(T), K)
                /\ archive'[pending'.file].rows
                       = {r \in T : r.date < KthLargestDate(DatesOf(T), K)}
       /\ PruneCommits =>
            LET T == TableOf(pending.table)
                cutoff == KthLargestDate(DatesOf(T), pending.K)
            IN  /\ TableOfNext(pending.table) = {r \in T : r.date >= cutoff}
                /\ archive'[pending.file].rows = {r \in T : r.date < cutoff}
       /\ \A t \in Tables : \A K \in Ks :
            Cardinality(DatesOf(TableOf(t))) < K => PruneReturns0(TableOf(t), K)
      ]_vars

\* a run with K = 2 has left exactly the two latest dates and removed rows
C4_Witness ==
    /\ last.op = "prune" /\ last.K = 2 /\ last.ret > 0
    /\ Cardinality(DatesOf(TableOf(last.table))) = 2
    /\ \A r \in pruned[last.table] : \A q \in TableOf(last.table) : r.date < q.date

\* C5: archive files are write-once: once a file exists no later run changes
\* its content, two runs in the same second included.
C5_WriteOnce ==
    [][\A f \in DOMAIN archive :
          archive[f].exists => archive'[f] = archive[f]]_vars

\* C6: every row removed from a tracked table is in an archive file before
\* it is deleted, the rows removed by the importer's trim included.
C6_RemovedRowsArchivedFirst ==
    [][\A t \in Tables : \A r \in TableOf(t) :
          (\A q \in TableOfNext(t) : KeyOf(t, q) # KeyOf(t, r)) =>
              \E f \in FilesOf(t) : r \in archive[f].rows]_vars

\* the series of a table: world_gold is one series, vn_gold one per brand
SeriesOf(t, T) == IF t = "world_gold" THEN {{r \in T : TRUE}} \ {{}}
                  ELSE {{r \in T : r.brand = b} : b \in BrandsOf(T)}
\* the rows of the series S in the table T
InSeries(t, S, T) == IF t = "world_gold" THEN T
                     ELSE {r \in T : \E q \in S : q.brand = r.brand}

\* the Gap Filler run on table t
fill(t, T, K) == IF t = "world_gold" THEN forward_fill_table(T, K)
                 ELSE forward_fill_vn_gold(T, K)

\* C7: after a gap-fill run with window K on a series whose maximum date is
\* end, a date d in [end - (K-1), end] has a row of the series if and only
\* if d had one before the run or the series has a row dated before d.
C7_WindowFilledFromHistory ==
    \A t \in Tables : \A K \in Ks : \A S \in SeriesOf(t, TableOf(t)) :
        LET end == MaxOf(DatesOf(S))
            after == InSeries(t, S, fill(t, TableOf(t), K).table)
        IN  \A d \in (end - (K - 1))..end :
                (d \in DatesOf(after)) <=>
                    (d \in DatesOf(S) \/ \E r \in S : r.date < d)

\* the most recent row of the set R: latest date, then latest ts
MostRecent(t, R) ==
    CHOOSE r \in R : \A q \in R :
        q.date < r.date
        \/ (q.date = r.date /\ (t = "world_gold" \/ ~TsLess(r, q)))

\* C8: every row a gap-fill run inserts for a series at date d carries the
\* values of the most recent real row of the series dated before d, and its
\* source is that row's source with the marker: no row whose source ends in
\* +ffill has served as last_known.
C8_CarriesMostRecentReal ==
    [][\A t \in Tables :
          pc = "idle" /\ last'.op = "fill" /\ last'.table = t =>
            \A r \in TableOfNext(t) \ TableOf(t) :
                LET reals == {q \in InSeries(t, {r}, TableOf(t)) :
                                 q.date < r.date /\ ~EndsFfill(q.source)}
                IN  /\ reals # {}
                    /\ r.val = MostRecent(t, reals).val
                    /\ r.source = NewSource(MostRecent(t, reals).source)]_vars

\* C9: gap-fill is idempotent: for any table state and any K, a second run
\* of forward_fill_table or forward_fill_vn_gold on the state the first run
\* left inserts no row, returns 0 and leaves the table unchanged.
C9_FillIdempotent ==
    \A t \in Tables : \A K \in Ks :
        \A first \in {fill(t, TableOf(t), K)} :
            \A second \in {fill(t, first.table, K)} :
                second.inserted = 0 /\ second.table = first.table

\* a run has inserted two rows, and the same run repeated inserts none
C9_Witness ==
    /\ last.op = "fill" /\ last.ret >= 2
    /\ fill(last.table, TableOf(last.table), last.K).inserted = 0
    /\ \E r \in TableOf(last.table) : EndsFfill(r.source)

\* C10: after any sequence of ingestions and gap-fill runs no source
\* contains the marker +ffill more than once.
C10_MarkerAtMostOnce ==
    \A t \in Tables : \A r \in TableOf(t) : FfillCount(r.source) <= 1

\* the step of a gap-fill run on table t that inserted rows
FillStep(t) == pc = "idle" /\ pc' = "idle" /\ last'.op = "fill" /\ last'.table = t
                  /\ TableOfNext(t) # TableOf(t)

\* C11: a gap-fill run never modifies or deletes an existing row: every row
\* present before the run is present unchanged after it, and the run only
\* inserts rows whose key was absent, as many as it returns.
C11_FillOnlyInserts ==
    [][\A t \in Tables : FillStep(t) =>
          /\ TableOf(t) \subseteq TableOfNext(t)
          /\ \A r \in TableOfNext(t) \ TableOf(t) : \A q \in TableOf(t) :
                 KeyOf(t, q) # KeyOf(t, r)
          /\ last'.ret = Cardinality(TableOfNext(t) \ TableOf(t))]_vars

\* a run on vn_gold has inserted rows next to a stored row whose key is the
\* key of a synthetic row of another date
C11_Witness ==
    /\ last.op = "fill" /\ last.table = "vn_gold" /\ last.ret >= 1
    /\ \E r \in vn_gold : r.date # r.tsd /\ ~EndsFfill(r.source)
    /\ \E r \in vn_gold : EndsFfill(r.source)

\* C12: every row the Gap Filler inserts has a source that ends with the
\* marker +ffill, whatever the source of the carried row, a NULL or empty
\* source included.
C12_InsertedSourceEndsWithMarker ==
    [][\A t \in Tables : FillStep(t) =>
          \A r \in TableOfNext(t) \ TableOf(t) : EndsFfill(r.source)]_vars

\* the step of an import run that changed vn_gold
ImportStep == pc = "idle" /\ last'.op = "import" /\ vn_gold' # vn_gold

\* C13: when the importer ingests a record whose (brand, ts) is already
\* stored, the stored row keeps its timestamp and its date (only the values
\* and the source are overwritten) and the key is held by one row.
C13_UpsertKeepsTsAndDate ==
    [][ImportStep =>
          \A r \in vn_gold :
              LET same == {q \in vn_gold' : KeyOf("vn_gold", q) = KeyOf("vn_gold", r)}
              IN  /\ Cardinality(same) <= 1
                  /\ \A q \in same : q.date = r.date /\ q.tsd = r.tsd /\ q.tst = r.tst
      ]_vars

\* C14: every row the importer has persisted, for any input record, has as
\* date the calendar day of its timestamp.
C14_DateIsDayOfTs ==
    \A r \in vn_gold : r.source = CAFEF => r.date = r.tsd

\* C15: ingestion is idempotent on row count: normalizing and importing a
\* payload twice, at two different times, leaves as many rows in the store
\* as normalizing and importing it once, items with a missing or unparseable
\* timestamp included.
C15_IngestTwiceSameCount ==
    Len(ingest.at) = 2 /\ ingest.at[1] # ingest.at[2] =>
        Cardinality(vn_gold) = ingest.once

\* the positions in ran of the steps whose status is not 0
Failed(ran) == {i \in 1..Len(ran) : ran[i].status # 0}

\* C16: the status main returns is 0 only if every executed step (world
\* ingest, crawl, import or missing-input check, calls of the fill/prune
\* block) had status 0; otherwise it is the status of the first executed
\* step that was not 0, whatever the later steps did.
C16_ReturnsFirstNonZero ==
    IF Failed(orch.ran) = {} THEN orch.rc = 0
    ELSE orch.rc = orch.ran[MinOf(Failed(orch.ran))].status

\* main has returned after two failing steps of different status
C16_Witness ==
    /\ orch.pc = "done"
    /\ \E i \in Failed(orch.ran), j \in Failed(orch.ran) :
          i < j /\ orch.ran[i].status # orch.ran[j].status
    /\ orch.rc = orch.ran[MinOf(Failed(orch.ran))].status

\* the steps main has executed so far
StepsRan == {orch.ran[i].step : i \in 1..Len(orch.ran)}

\* C17: when the fill or the prune of one table raises, main has, at its
\* return, still run the fill and the prune of every other table, and the
\* status it returns is not 0.
C17_FailureAbortsOnlyThatTable ==
    orch.pc = "done" =>
        \A i \in Failed(orch.ran) :
            orch.ran[i].step \in FillSteps \cup PruneSteps =>
                /\ orch.rc # 0
                /\ \A s \in FillSteps \cup PruneSteps :
                      TableOfStep(s) # TableOfStep(orch.ran[i].step) => s \in StepsRan

\* ingestion 0, gap-fill 1, prune 2
Phase(step) == IF step \in IngestSteps THEN 0 ELSE IF step \in FillSteps THEN 1 ELSE 2

\* C18: the steps of an invocation occur in the order ingestion, gap-fill,
\* prune; when the prune of any table starts, the fill of world_gold, of
\* usd_vnd and of vn_gold has each returned (its inserts committed: a fill
\* of the stored table would add nothing); no ingestion step follows a fill.
C18_IngestThenFillThenPrune ==
    /\ \A i \in 1..Len(orch.ran), j \in 1..Len(orch.ran) :
          i < j => Phase(orch.ran[i].step) <= Phase(orch.ran[j].step)
    /\ (orch.pc \in PruneSteps \/ StepsRan \cap PruneSteps # {}) =>
          \A f \in FillSteps : \E i \in 1..Len(orch.ran) : orch.ran[i] = Ran(f, 0)
    /\ orch.pc = "prune_world_gold" =>
          \A t \in Tables : fill(t, TableOf(t), orch.K).table = TableOf(t)

\* main has returned after ingesting, filling a gap of world_gold and
\* pruning rows of it
C18_Witness ==
    /\ orch.pc = "done"
    /\ \A s \in FillSteps \cup PruneSteps : s \in StepsRan
    /\ StepsRan \cap IngestSteps # {}
    /\ \E r \in world_gold : EndsFfill(r.source)
    /\ pruned["world_gold"] # {}

\* the status of the executed step `step`, 0 if it has not run
StatusOf(step) ==
    IF step \in StepsRan
    THEN orch.ran[CHOOSE i \in 1..Len(orch.ran) : orch.ran[i].step = step].status
    ELSE 0

\* C19: at the return of main, a world ingest that exited non-zero has been
\* followed by the crawl and by the import (or, without the JSON file, by
\* the missing-input message); a failed crawl or an absent JSON file is in
\* the log, the returned status is not 0, and the fill/prune block has been
\* entered and, unless one of its calls raised, has run all its calls.
C19_IngestFailureBlocksNothing ==
    orch.pc = "done" =>
        /\ (orch.vn /\ StatusOf("world_ingest") # 0) =>
              /\ "crawl" \in StepsRan
              /\ IF orch.json THEN "import" \in StepsRan ELSE "missing_json" \in StepsRan
        /\ (StatusOf("crawl") # 0 \/ "missing_json" \in StepsRan) =>
              /\ orch.rc # 0
              /\ StatusOf("crawl") # 0 => "crawl" \in orch.log
              /\ "missing_json" \in StepsRan => "missing_json" \in orch.log
              /\ BlockSteps[1] \in StepsRan
              /\ (\A s \in FillSteps \cup PruneSteps : StatusOf(s) = 0) =>
                    FillSteps \cup PruneSteps \subseteq StepsRan

\* main has returned after a failed world ingest, a failed crawl and a
\* missing JSON file, having run the six calls of the block
C19_Witness ==
    /\ orch.pc = "done"
    /\ StatusOf("world_ingest") # 0
    /\ StatusOf("crawl") # 0
    /\ "missing_json" \in StepsRan
    /\ FillSteps \cup PruneSteps \subseteq StepsRan
    /\ orch.rc = StatusOf("world_ingest")

\* C20: a call of the fill/prune block changes a stored table in one piece:
\* the table after the step is the table before it, or the table with all
\* the rows of that table's fill, or the table without all the rows of that
\* table's prune; a call that raised leaves every table as it was.
C20_StepsAtomic ==
    [][orch.pc \in FillSteps \cup PruneSteps =>
         \A t \in Tables :
            /\ orch'.ran[Len(orch'.ran)].status # 0 => TableOfNext(t) = TableOf(t)
            /\ \/ TableOfNext(t) = TableOf(t)
               \/ /\ orch.pc \in FillSteps /\ TableOfStep(orch.pc) = t
                  /\ TableOfNext(t) = fill(t, TableOf(t), orch.K).table
               \/ /\ orch.pc \in PruneSteps /\ TableOfStep(orch.pc) = t
                  /\ ~PruneReturns0(TableOf(t), orch.K)
                  /\ TableOfNext(t) =
                        DeleteOlder(TableOf(t), MinOf(distinct_dates(TableOf(t), orch.K)))]_vars

\* the fill of world_gold has raised with two rows to insert, and none of
\* them is stored
C20_Witness ==
    /\ "fill_world_gold" \in StepsRan
    /\ StatusOf("fill_world_gold") # 0
    /\ Cardinality(forward_fill_table(world_gold, orch.K).table \ world_gold) >= 2
    /\ \A r \in world_gold : ~EndsFfill(r.source)

\* the table prune_table_keep_last_n_days(K) leaves of T
PruneOf(T, K) ==
    IF PruneReturns0(T, K) THEN T
    ELSE DeleteOlder(T, MinOf(distinct_dates(T, K)))

\* the table the fill and then the prune of table t leave of T
RunOf(t, T, K) == PruneOf(fill(t, T, K).table, K)

C22_WindowEndsAtKeyMaximum ==
    [][FillStep("vn_gold") =>
          \A r \in vn_gold' \ vn_gold :
              r.date <= MaxOf({q.date : q \in {x \in vn_gold : x.brand = r.brand}})]_vars

\* the items of the payload in which no candidate field of either price
\* resolves to a number
AllAbsent(item) == item.buyPrice = NoPrice /\ item.sellPrice = NoPrice

\* C23: parse_gold_data emits no record for an item whose buy price and
\* sell price are both absent: when the payload consists of such items only,
\* the parsed list is empty.
C23_AllAbsentDropped ==
    (ingest.crawl.pc = "returned"
     /\ \A i \in 1..Len(ingest.payload) : AllAbsent(ingest.payload[i]))
        => ingest.crawl.parsed = <<>>

\* the value the magnitude rule gives a resolved price v of an item `name`
Magnitude(name, v) == IF name = "SJC" /\ v < 200000 THEN v * 1000000 ELSE v

\* C24: the parsed list holds, for every item, a record of its label and
\* instant in which each resolved price of an SJC item that is below 200000
\* is multiplied by 1000000, and every other resolved price is unchanged.
C24_MagnitudePerField ==
    ingest.crawl.pc = "returned" =>
        \A i \in 1..Len(ingest.payload) :
            LET it == ingest.payload[i]
            IN  \E k \in 1..Len(ingest.crawl.parsed) :
                  LET rec == ingest.crawl.parsed[k]
                  IN  /\ rec.gold_type = it.name
                      /\ rec.timestamp = Normalize(it, ingest.utcnow).timestamp
                      /\ it.buyPrice # NoPrice =>
                            rec.buy_price = Magnitude(it.name, it.buyPrice)
                      /\ it.sellPrice # NoPrice =>
                            rec.sell_price = Magnitude(it.name, it.sellPrice)

\* the instant of record x is at or after now - D days
AtOrAfterCutoff(x, D, now) ==
    \/ x.timestamp.d > now.d - D
    \/ x.timestamp.d = now.d - D /\ x.timestamp.t >= now.t

\* the positions of the parsed list whose record is in the window
InWindow(parsed, D, now) ==
    {i \in 1..Len(parsed) : AtOrAfterCutoff(parsed[i], D, now)}

\* C25: with --days D > 0 the list crawl keeps holds exactly the parsed
\* records whose instant is at or after now - D days (the one at the cutoff
\* and the one at now included), in the order they had in the parsed list.
C25_WindowKeepsFromCutoff ==
    (ingest.crawl.pc = "returned" /\ ingest.crawl.days > 0) =>
        LET parsed == ingest.crawl.parsed
            kept == ingest.crawl.data
            W == InWindow(parsed, ingest.crawl.days, ingest.utcnow)
        IN  /\ Len(kept) = Cardinality(W)
            /\ \E f \in [1..Len(kept) -> 1..Len(parsed)] :
                  /\ \A k \in 1..Len(kept) : f[k] \in W /\ kept[k] = parsed[f[k]]
                  /\ \A k \in 1..Len(kept), l \in 1..Len(kept) : k < l => f[k] < f[l]

\* crawl has filtered a list with a record before the cutoff, one at the
\* cutoff and one at now, and kept the last two
C25_Witness ==
    /\ ingest.crawl.pc = "returned" /\ ingest.crawl.days > 0
    /\ Len(ingest.crawl.parsed) = 3 /\ Len(ingest.crawl.data) = 2
    /\ ingest.crawl.data[1].timestamp =
          Iso(ingest.utcnow.d - ingest.crawl.days, ingest.utcnow.t)
    /\ ingest.crawl.data[2].timestamp = Iso(ingest.utcnow.d, ingest.utcnow.t)

\* what a caller observes of a run: the value crawl returns and the exit
\* status of the process
Outcome(raw, days, utcnow) ==
    <<crawl(raw, days, utcnow).json_path,
      exit_status(crawl(raw, days, utcnow).json_path)>>

\* C26: a run in which records were parsed and the window filter removed all
\* of them ends with an outcome (return value of crawl, exit status) other
\* than the outcome of a run in which no record was parsed.
C26_EmptyCasesDistinguished ==
    (/\ ingest.crawl.pc = "exited"
     /\ ingest.crawl.parsed # <<>>
     /\ Filtered(ingest.crawl.parsed, ingest.crawl.days, ingest.utcnow) = <<>>)
        => <<ingest.crawl.json_path, ingest.crawl.exit>>
               # Outcome(<<>>, ingest.crawl.days, ingest.utcnow)

\* the records appended for the payload, in input order
Appended == [i \in 1..Len(ingest.payload) |-> Normalize(ingest.payload[i], ingest.utcnow)]

\* the first position of the input whose record has the key of rec
FirstWith(rec) ==
    MinOf({i \in 1..Len(Appended) : DedupKey(Appended[i]) = DedupKey(rec)})

\* C27: the list parse_gold_data returns holds every tuple (date, time,
\* gold_type, buy_price, sell_price) of the input exactly once, each by the
\* first input record of that tuple; it is ascending in the timestamp, and
\* records of equal timestamp stand in the order their first occurrences
\* had in the input.
C27_FirstKeptStableSorted ==
    ingest.crawl.pc = "returned" =>
        LET out == ingest.crawl.parsed
        IN  /\ {DedupKey(out[k]) : k \in 1..Len(out)}
                  = {DedupKey(Appended[i]) : i \in 1..Len(Appended)}
            /\ \A k \in 1..Len(out), l \in 1..Len(out) :
                  k # l => DedupKey(out[k]) # DedupKey(out[l])
            /\ \A k \in 1..Len(out) : out[k] = Appended[FirstWith(out[k])]
            /\ \A k \in 1..Len(out), l \in 1..Len(out) :
                  k < l =>
                    /\ InstLeq([d |-> out[k].timestamp.d, t |-> out[k].timestamp.t],
                               [d |-> out[l].timestamp.d, t |-> out[l].timestamp.t])
                    /\ out[k].timestamp = out[l].timestamp =>
                          FirstWith(out[k]) < FirstWith(out[l])

\* three records of one instant were parsed, the third a repetition of the
\* first: the first and the second are returned, in that order
C27_Witness ==
    /\ ingest.crawl.pc = "returned"
    /\ Len(ingest.payload) = 3
    /\ Appended[1] = Appended[3] /\ Appended[1] # Appended[2]
    /\ Appended[1].timestamp = Appended[2].timestamp
    /\ ingest.crawl.parsed = <<Appended[1], Appended[2]>>

\* C28: a gap-fill followed by a prune, both with K >= 1, of a table whose
\* maximum date is end leaves only rows dated in [end - (K-1), end], and
\* the dates left are consecutive days up to end.
C28_RunLeavesGapFreeWindow ==
    \A t \in Tables : \A K \in Ks \ {0} :
        TableOf(t) # {} =>
            LET end == MaxOf(DatesOf(TableOf(t)))
                R == RunOf(t, TableOf(t), K)
            IN  /\ \A r \in R : end - (K - 1) <= r.date /\ r.date <= end
                /\ R # {}
                /\ DatesOf(R) = MinOf(DatesOf(R))..end

\* the step in which a prune run of table t with K commits its DELETE
PruneStep(t) == pc = "archived" /\ last'.op = "prune" /\ last'.table = t

\* C29: a gap-fill run inserts rows only at dates d with start <= d < end
\* (end the maximum date of the table, start = end - (K-1)), a prune run
\* with K >= 1 deletes no row dated at the maximum date, and neither
\* changes the maximum date of the table or empties it.
C29_MaximumDateKept ==
    [][\A t \in Tables :
          /\ FillStep(t) =>
                LET end == MaxOf(DatesOf(TableOf(t)))
                    start == end - (last'.K - 1)
                IN  /\ \A r \in TableOfNext(t) \ TableOf(t) :
                          start <= r.date /\ r.date < end
                    /\ MaxOf(DatesOf(TableOfNext(t))) = end
          /\ (PruneStep(t) /\ last'.K >= 1) =>
                LET end == MaxOf(DatesOf(TableOf(t)))
                IN  /\ \A r \in TableOf(t) : r.date = end => r \in TableOfNext(t)
                    /\ TableOfNext(t) # {}
                    /\ MaxOf(DatesOf(TableOfNext(t))) = end]_vars

\* main has returned from an invocation with --vn in which the crawl failed
\* and the import of the JSON file succeeded
StaleImported ==
    /\ orch.pc = "done" /\ orch.vn
    /\ StatusOf("crawl") # 0
    /\ "import" \in StepsRan /\ StatusOf("import") = 0

\* in an invocation with --vn the import ran if the JSON file existed when
\* the crawl returned, and the missing-input check ran if it did not
ImportIffJson ==
    (orch.pc = "done" /\ orch.vn) =>
        /\ "import" \in StepsRan <=> orch.json
        /\ "missing_json" \in StepsRan <=> ~orch.json

\* C30, as stated: the import runs if and only if the JSON file exists when
\* the crawl returns, whatever the crawl's status; and after a failed crawl
\* and a successful import of the file, main returns the crawl's code.
C30_StaleImportReturnsCrawlCode ==
    /\ ImportIffJson
    /\ StaleImported => orch.rc = StatusOf("crawl")

\* C30, amended: as above, main returning the crawl's code when the world
\* ingest of the invocation did not fail, and the code of the world ingest
\* when it did.
C30_StaleImportReturnsFirstCode ==
    /\ ImportIffJson
    /\ StaleImported =>
          orch.rc = IF StatusOf("world_ingest") # 0 THEN StatusOf("world_ingest")
                    ELSE StatusOf("crawl")

\* main has returned the crawl's code after importing a file the failed
\* crawl did not write, and after the six calls of the block
C30_Witness ==
    /\ StaleImported
    /\ StatusOf("world_ingest") = 0
    /\ orch.rc = StatusOf("crawl")
    /\ FillSteps \cup PruneSteps \subseteq StepsRan
====
